---- MODULE Spec2Model ----
(***************************************************************************)
(* Model of src/tmp30.c: the audio transcoding pipeline                    *)
(* demuxer -> decoder -> resampler -> sample FIFO -> encoder -> muxer,     *)
(* with the setup and the cleanup of main().                               *)
(*                                                                         *)
(* The demuxer, decoder, encoder, muxer, resampler and the FIFO are        *)
(* library collaborators.  Each call of a collaborator is modelled by its  *)
(* documented outcomes; a failing call is selected by the `fault' drawn by *)
(* the action that makes the call.                                         *)
(***************************************************************************)
EXTENDS Integers, Sequences, FiniteSets, TLC

(* ------------------------------ bounds -------------------------------- *)
MaxPkts == 2        \* packets the demuxer holds at most
MaxD == 2           \* largest decoded frame size (samples)
MaxE == 2           \* largest encoder frame size (samples)
MaxDecDelay == 1    \* frames the decoder may hold back
MaxEncDelay == 1    \* packets the encoder may hold back
MaxArgc == 4        \* largest argument count tried

\* calls of the Pump, the Drain or the flush push a run is followed for: more
\* than any run needs (a Pump reads a packet, a Drain takes a sample, a flush
\* push takes a packet), so a state that stops here is a loop without end
MaxCalls == MaxPkts * MaxD + MaxEncDelay + 2

FrameSizes == 1..MaxD
EncSizes == 1..MaxE

(* ------------------------- program constants -------------------------- *)
\* FFERRTAG('E','X','I','T'), the value main's ret starts with
AVERROR_EXIT == -1414092869

Min(a, b) == IF a < b THEN a ELSE b
Max(a, b) == IF a > b THEN a ELSE b

RECURSIVE SumSizes(_)
SumSizes(s) == IF s = <<>> THEN 0 ELSE s[1].n + SumSizes(Tail(s))

Count(s, x) == Cardinality({i \in 1..Len(s) : s[i] = x})

Resources == {"inpfcx", "inpccx", "outio", "outfcx", "outccx", "resccx", "fifo"}

VARIABLES
  pc,          \* position of main
  ret,         \* main's ret
  status,      \* exit status of the process (-1 while running)
  ptr,         \* main's handles: TRUE when non-NULL
  acquired,    \* resources in the order they were acquired
  released,    \* resources in the order they were released
  E,           \* outccx->frame_size
  finished,    \* main's finished flag
  level,       \* av_audio_fifo_size(fifo)
  cap,         \* samples the FIFO has room for in total
  pts,         \* the global timestamp
  inLeft,      \* packets the demuxer has not delivered yet
  decQ,        \* sizes of the frames the decoder holds
  decDelay,    \* frames the decoder holds back while not draining
  decDraining, \* the decoder got the empty (flush) packet
  encQ,        \* ids of the packets the encoder holds
  encDelay,    \* packets the encoder holds back while not draining
  encDraining, \* the encoder got the NULL (flush) frame
  headerDone,  \* avformat_write_header succeeded
  written,     \* ids of the packets given to av_write_frame, in order
  trailerDone, \* av_write_trailer succeeded
  frames,      \* frames stamped by encode_audio_frame: [n, pts]
  inRate,      \* inpccx->sample_rate (0: no decoder context)
  outRate,     \* outccx->sample_rate (0: no encoder context)
  hist         \* history of the run (bookkeeping for the properties)

vars == <<pc, ret, status, ptr, acquired, released, E, finished, level, cap,
          pts, inLeft, decQ, decDelay, decDraining, encQ, encDelay,
          encDraining, headerDone, written, trailerDone, frames, inRate,
          outRate,
          hist>>

resVars == <<ptr, acquired, released>>
fifoVars == <<level, cap>>
decVars == <<inLeft, decQ, decDraining>>
encVars == <<pts, encQ, encDraining, written, frames>>
envVars == <<E, decDelay, encDelay>>
rateVars == <<inRate, outRate>>

\* sample rates an input file may have
Rates == {44100, 48000}

NoPtr == [inpfcx |-> FALSE, inpccx |-> FALSE, outfcx |-> FALSE,
          outccx |-> FALSE, resccx |-> FALSE, fifo |-> FALSE]

Hist0 == [yielded |-> 0,       \* samples in frames the decoder yielded
          appended |-> 0,      \* samples appended to the FIFO
          dropped |-> 0,       \* frames received from the decoder and discarded
          pumps |-> 0,         \* calls of read_decode_convert_and_store
          drains |-> 0,        \* calls of load_encode_and_write
          sends |-> 0,         \* calls of avcodec_send_frame
          nullPushes |-> 0,    \* calls of encode_audio_frame(NULL)
          trailers |-> 0,      \* calls of av_write_trailer
          eos |-> FALSE,       \* a Pump call has reported finished
          eosLevel |-> 0,      \* level when it did
          eosDrains |-> 0,     \* Drain calls since
          eosPumps |-> 0,      \* Pump calls since
          failed |-> FALSE,    \* a fatal error has been returned to main
          shortRead |-> FALSE, \* av_audio_fifo_read returned < frame_size
          shortWrite |-> FALSE,\* av_audio_fifo_write returned < frame_size
          lastOp |-> "none",   \* the last pipeline operation
          lastRes |-> "none",  \* and how it ended
          lastFault |-> "none",\* the collaborator call that failed in it
          lastEof |-> FALSE,   \* a collaborator signalled end of stream in it
          lastMove |-> "none", \* "append" / "consume" when it did so
          lastReq |-> 0,       \* samples it asked the FIFO to take or give
          lastCount |-> 0,     \* samples it appended or consumed
          lastLevel |-> 0,     \* level before it
          lastPts |-> 0,       \* pts before it
          lastFin |-> FALSE,   \* main's finished before it
          lastFs |-> 0,        \* frame_size computed by the last Drain
          lastDec |-> "none",  \* result of avcodec_receive_frame in it
          lastYield |-> 0,     \* samples of the frame the decoder yielded in it
          lastGrown |-> 0,     \* FIFO room after av_audio_fifo_realloc in it
          convCalled |-> FALSE,\* convert_samples was called in it
          convRet |-> 0,       \* what convert_samples returned
          convProduced |-> 0,  \* samples swr_convert produced
          frameAlloc |-> FALSE,\* the Pump allocated its input frame
          frameFreed |-> 0,    \* times the Pump freed its input frame
          convInit |-> TRUE,   \* conv_isamps was initialised on the Pump's path
          convAlloc |-> FALSE, \* the Pump allocated the converted block
          convFreed |-> 0,     \* times the Pump freed the converted block
          wildFree |-> FALSE,  \* the Pump that just returned freed through an
                               \* uninitialised handle
          crashed |-> FALSE,   \* the process was killed
          firstEos |-> FALSE,  \* the first Pump call reported finished
          faulted |-> FALSE,   \* a collaborator call of the pipeline failed
          flushK |-> 0,        \* packets the encoder held when flushing began
          flushW |-> 0,        \* packets written when flushing began
          lastSend |-> "none", \* result of avcodec_send_frame in it
          lastRecv |-> FALSE,  \* avcodec_receive_packet was called in it
          asserted |-> FALSE,  \* init_resampler evaluated its assertion
          setupFault |-> "none", \* the call that failed during setup
          argc |-> 0]          \* main's argc

Init ==
  /\ pc = "start"
  /\ ret = AVERROR_EXIT
  /\ status = -1
  /\ ptr = NoPtr
  /\ acquired = <<>>
  /\ released = <<>>
  /\ E \in EncSizes
  /\ finished = FALSE
  /\ level = 0
  /\ cap = 0
  /\ pts = 0
  /\ inLeft \in 0..MaxPkts
  /\ decQ = <<>>
  /\ decDelay \in 0..MaxDecDelay
  /\ decDraining = FALSE
  /\ encQ = <<>>
  /\ encDelay \in 0..MaxEncDelay
  /\ encDraining = FALSE
  /\ headerDone = FALSE
  /\ written = <<>>
  /\ trailerDone = FALSE
  /\ frames = <<>>
  /\ inRate = 0
  /\ outRate = 0
  /\ hist = Hist0

(* --------------------------- exit status ------------------------------ *)
\* the low 8 bits of main's return value reach the parent process
ExitStatus(r) == r % 256

(* ------------------------------ setup --------------------------------- *)
pipeVars == <<finished, level, cap, pts, inLeft, decQ, decDraining, encQ,
              encDraining, headerDone, written, trailerDone, frames>>

\* faulty variant: extra arguments are accepted
ArgsOk_AtLeast(argc) == argc >= 3

\* main, line 729: the program name and two positional arguments
ArgsOk(argc) == argc = 3

\* main, argc check: exit(1) when argc != 3
CheckArgs ==
  /\ pc = "start"
  /\ \E argc \in 1..MaxArgc :
       /\ IF ~ArgsOk(argc)
            THEN /\ pc' = "exit"
                 /\ status' = 1
            ELSE /\ pc' = "open_input"
                 /\ status' = status
       /\ hist' = [hist EXCEPT !.argc = argc]
  /\ UNCHANGED <<ret, resVars, envVars, rateVars, pipeVars>>

OpenInputFaults == {"open_input", "find_stream_info", "nb_streams",
                    "find_decoder", "alloc_context", "parameters_to_context",
                    "open2"}

\* what open_input_file acquires and releases when `fault' is its first
\* failing step ("none": success)
OpenInputAcq(fault) ==
  CASE fault = "open_input" -> <<>>
    [] fault \in {"find_stream_info", "nb_streams", "find_decoder",
                  "alloc_context"} -> <<"inpfcx">>
    [] OTHER -> <<"inpfcx", "inpccx">>

OpenInputRel(fault) ==
  CASE fault \in {"none", "open_input"} -> <<>>
    [] fault \in {"find_stream_info", "nb_streams", "find_decoder",
                  "alloc_context"} -> <<"inpfcx">>
    [] fault = "parameters_to_context" -> <<"inpfcx", "inpccx">>
    [] OTHER -> <<"inpccx", "inpfcx">>

\* main: if (open_input_file(...)) goto cleanup
OpenInput ==
  /\ pc = "open_input"
  /\ \E fault \in OpenInputFaults \cup {"none"} :
       /\ acquired' = acquired \o OpenInputAcq(fault)
       /\ released' = released \o OpenInputRel(fault)
       /\ ptr' = [ptr EXCEPT !.inpfcx = (fault = "none"),
                             !.inpccx = (fault = "none")]
       /\ pc' = IF fault = "none" THEN "open_output" ELSE "cleanup"
       /\ hist' = [hist EXCEPT !.failed = (fault # "none"),
                               !.setupFault = fault]
       /\ \E r \in Rates : inRate' = IF fault = "none" THEN r ELSE inRate
  /\ UNCHANGED <<ret, status, outRate, envVars, pipeVars>>

\* faulty variant: the encoder is opened with a fixed sample rate
OutSampleRate_Fixed(r) == 44100

\* open_output_file, line 204: avctx->sample_rate = inpccx->sample_rate
OutSampleRate(r) == r

OpenOutputFaults == {"avio_open", "alloc_format_context", "guess_format",
                     "strdup", "find_encoder", "new_stream", "alloc_context",
                     "open2", "parameters_from_context"}

OpenOutputAcq(fault) ==
  CASE fault = "avio_open" -> <<>>
    [] fault = "alloc_format_context" -> <<"outio">>
    [] fault \in {"guess_format", "strdup", "find_encoder", "new_stream",
                  "alloc_context"} -> <<"outio", "outfcx">>
    [] OTHER -> <<"outio", "outfcx", "outccx">>

\* the early returns of lines 156-165 release nothing; the cleanup label
\* frees avctx (when set), closes (*outfcx)->pb and frees *outfcx
OpenOutputRel(fault) ==
  CASE fault \in {"none", "avio_open", "alloc_format_context"} -> <<>>
    [] fault \in {"guess_format", "strdup", "find_encoder", "new_stream",
                  "alloc_context"} -> <<"outio", "outfcx">>
    [] OTHER -> <<"outccx", "outio", "outfcx">>

\* main: if (open_output_file(...)) goto cleanup
OpenOutput ==
  /\ pc = "open_output"
  /\ \E fault \in OpenOutputFaults \cup {"none"} :
       /\ acquired' = acquired \o OpenOutputAcq(fault)
       /\ released' = released \o OpenOutputRel(fault)
       /\ ptr' = [ptr EXCEPT !.outfcx = (fault = "none"),
                             !.outccx = (fault = "none")]
       /\ pc' = IF fault = "none" THEN "init_resampler" ELSE "cleanup"
       /\ hist' = [hist EXCEPT !.failed = (fault # "none")]
       /\ outRate' = IF fault = "none" THEN OutSampleRate(inRate) ELSE outRate
  /\ UNCHANGED <<ret, status, inRate, envVars, pipeVars>>

InitResamplerFaults == {"alloc_set_opts", "swr_init"}

\* init_resampler, line 299: av_assert0(outccx->sample_rate ==
\* inpccx->sample_rate)
SampleRateAssert(out, inp) == out = inp

\* main: if (init_resampler(...)) goto cleanup; a failed av_assert0 aborts
\* the process (SIGABRT) with the resampler allocated and nothing released
InitResampler ==
  /\ pc = "init_resampler"
  /\ \E fault \in InitResamplerFaults \cup {"none"} :
       LET checked == fault # "alloc_set_opts"
           abort == checked /\ ~SampleRateAssert(outRate, inRate)
       IN
       /\ acquired' = IF fault = "alloc_set_opts" THEN acquired
                      ELSE Append(acquired, "resccx")
       /\ released' = IF fault = "swr_init" /\ ~abort
                        THEN Append(released, "resccx")
                      ELSE released
       /\ ptr' = [ptr EXCEPT !.resccx = (fault = "none" /\ ~abort)]
       /\ pc' = IF abort THEN "exit"
                ELSE IF fault = "none" THEN "init_fifo" ELSE "cleanup"
       /\ status' = IF abort THEN 128 + 6 ELSE status
       /\ hist' = [hist EXCEPT !.failed = (fault # "none" \/ abort),
                               !.asserted = checked,
                               !.crashed = abort]
  /\ UNCHANGED <<ret, envVars, rateVars, pipeVars>>

\* main: if (init_fifo(...)) goto cleanup; the FIFO starts with room for 1
InitFifo ==
  /\ pc = "init_fifo"
  /\ \E fault \in {"fifo_alloc", "none"} :
       /\ acquired' = IF fault = "none" THEN Append(acquired, "fifo")
                      ELSE acquired
       /\ ptr' = [ptr EXCEPT !.fifo = (fault = "none")]
       /\ cap' = IF fault = "none" THEN 1 ELSE cap
       /\ pc' = IF fault = "none" THEN "write_header" ELSE "cleanup"
       /\ hist' = [hist EXCEPT !.failed = (fault # "none")]
  /\ UNCHANGED <<ret, status, released, envVars, rateVars, finished, level, pts,
                 decVars, encQ, encDraining, headerDone, written,
                 trailerDone, frames>>

\* faulty variant: a failed header write is ignored
AfterHeader_Ignore(ok) == "filling"

\* main, lines 751-752: where main goes after write_output_file_header
AfterHeader(ok) == IF ok THEN "filling" ELSE "cleanup"

\* main: if (write_output_file_header(outfcx)) goto cleanup
WriteHeader ==
  /\ pc = "write_header"
  /\ \E fault \in {"write_header", "none"} :
       /\ headerDone' = (fault = "none")
       /\ pc' = AfterHeader(fault = "none")
       /\ hist' = [hist EXCEPT !.failed = (fault # "none")]
  /\ UNCHANGED <<ret, status, resVars, envVars, rateVars,
                 finished, fifoVars, pts,
                 decVars, encQ, encDraining, written, trailerDone, frames>>

(* ----------------------------- cleanup -------------------------------- *)
\* faulty variant: the output I/O handle is closed after the format context
CleanupRel_IoLast(p) ==
     (IF p.fifo THEN <<"fifo">> ELSE <<>>)
  \o (IF p.resccx THEN <<"resccx">> ELSE <<>>)
  \o (IF p.outccx THEN <<"outccx">> ELSE <<>>)
  \o (IF p.outfcx THEN <<"outfcx", "outio">> ELSE <<>>)
  \o (IF p.inpccx THEN <<"inpccx">> ELSE <<>>)
  \o (IF p.inpfcx THEN <<"inpfcx">> ELSE <<>>)

\* main's cleanup label: what it releases, in order, given main's handles
CleanupRel(p) ==
     (IF p.fifo THEN <<"fifo">> ELSE <<>>)
  \o (IF p.resccx THEN <<"resccx">> ELSE <<>>)
  \o (IF p.outccx THEN <<"outccx">> ELSE <<>>)
  \o (IF p.outfcx THEN <<"outio", "outfcx">> ELSE <<>>)
  \o (IF p.inpccx THEN <<"inpccx">> ELSE <<>>)
  \o (IF p.inpfcx THEN <<"inpfcx">> ELSE <<>>)

Cleanup ==
  /\ pc = "cleanup"
  /\ released' = released \o CleanupRel(ptr)
  /\ ptr' = NoPtr
  /\ status' = ExitStatus(ret)
  /\ pc' = "exit"
  /\ UNCHANGED <<ret, acquired, envVars, rateVars, pipeVars, hist>>

(* --------------------------- the sample FIFO -------------------------- *)
\* av_audio_fifo_realloc(fifo, want): the room never shrinks
FifoRealloc(cp, want) == Max(cp, want)

\* faulty variant: room is asked for the new samples only
ReallocTarget_CountOnly(lvl, n) == n

\* add_samples_to_fifo, line 477: the size asked of av_audio_fifo_realloc
ReallocTarget(lvl, n) == lvl + n

\* av_audio_fifo_write(fifo, data, n): writes all n samples; when they do
\* not fit it first grows the FIFO itself, and returns a negative value
\* when that growth fails (fault "fifo_write")
FifoWrite(lvl, cp, n, fault) ==
  IF cp - lvl >= n
    THEN [ret |-> n, level |-> lvl + n, cap |-> cp]
    ELSE IF fault = "fifo_write"
      THEN [ret |-> -1, level |-> lvl, cap |-> cp]
      ELSE [ret |-> n, level |-> lvl + n, cap |-> 2 * (lvl + n)]

\* faulty variant: the samples are looked at but stay in the FIFO
FifoRead_Peek(lvl, n) ==
  [ret |-> Min(n, lvl), level |-> lvl]

\* av_audio_fifo_read(fifo, data, n): reads min(n, level) samples
FifoRead(lvl, n) ==
  [ret |-> Min(n, lvl), level |-> lvl - Min(n, lvl)]

\* add_samples_to_fifo(fifo, samples, n)
AddSamplesToFifo(lvl, cp, n, fault) ==
  IF fault = "fifo_realloc"
    THEN [err |-> TRUE, short |-> FALSE, level |-> lvl, cap |-> cp,
          grown |-> cp]
    ELSE LET g == FifoRealloc(cp, ReallocTarget(lvl, n))
             w == FifoWrite(lvl, g, n, fault)
         IN [err |-> w.ret < n, short |-> w.ret < n,
             level |-> w.level, cap |-> w.cap, grown |-> g]

(* ----------------------------- the decoder ---------------------------- *)
\* avcodec_receive_frame: "frame", "eagain" or "eof" from the decoder state
DecReceive(q, delay, draining) ==
  IF draining
    THEN (IF q # <<>> THEN "frame" ELSE "eof")
    ELSE (IF Len(q) > delay THEN "frame" ELSE "eagain")

\* decode_audio_frame(frame, inpfcx, inpccx, &data_present, &finished);
\* d is the size of the frame the packet read (if any) decodes to
DecodeAudioFrame(fault, d) ==
  LET same == [err |-> TRUE, data |-> FALSE, fin |-> finished, n |-> 0,
               eof |-> FALSE, rres |-> "none", inLeft |-> inLeft,
               decQ |-> decQ, decDraining |-> decDraining]
  IN
  IF fault = "alloc_packet" THEN same
  ELSE IF fault = "read" THEN [same EXCEPT !.fin = FALSE]
  ELSE
    LET eof == (inLeft = 0)                \* av_read_frame: AVERROR_EOF
        left1 == IF eof THEN inLeft ELSE inLeft - 1
        afterRead == [same EXCEPT !.fin = eof, !.eof = eof, !.inLeft = left1]
    IN
    \* avcodec_send_packet fails, or the decoder was flushed before
    IF fault = "send" \/ decDraining THEN afterRead
    ELSE
      LET q1 == IF eof THEN decQ ELSE Append(decQ, d)
          dr1 == eof                        \* the empty packet starts the flush
          afterSend == [afterRead EXCEPT !.decQ = q1, !.decDraining = dr1]
          r == DecReceive(q1, decDelay, dr1)
      IN
      IF fault = "receive" THEN [afterSend EXCEPT !.rres = "error"]
      ELSE CASE r = "eagain" -> [afterSend EXCEPT !.err = FALSE,
                                                  !.rres = "eagain"]
             [] r = "eof" -> [afterSend EXCEPT !.err = FALSE, !.fin = TRUE,
                                               !.eof = TRUE, !.rres = "eof"]
             [] r = "frame" -> [afterSend EXCEPT !.err = FALSE, !.data = TRUE,
                                                 !.n = Head(q1),
                                                 !.decQ = Tail(q1),
                                                 !.rres = "frame"]

(* ---------------------------- the Frame Pump -------------------------- *)
\* faulty variant: a frame is stored although finished is set
PumpStores_IgnoreFin(fin, data) == data

\* read_decode_convert_and_store, lines 524-532: the decoded frame is
\* converted and stored when data is present and finished is not set
PumpStores(fin, data) == (~fin) /\ data

PumpFaults == {"alloc_frame", "alloc_packet", "read", "send", "receive",
               "alloc_conv", "convert", "fifo_realloc", "fifo_write"}

\* faulty variant: the filling loop runs once more at level = E
FillGuard_OffByOne(lvl, e) == lvl <= e

\* main, line 767: the guard of the filling loop
FillGuard(lvl, e) == lvl < e

\* faulty variant: the break on finished is missing
AfterPump_NoBreak(err, fin) ==
  IF err THEN "cleanup" ELSE "filling"

\* main, lines 770-776: where main goes after one Pump call
AfterPump(err, fin) ==
  IF err THEN "cleanup" ELSE IF fin THEN "draining" ELSE "filling"

\* faulty variant: the count of swr_convert is returned
ConvertSamples_Count(n, fault) ==
  IF fault = "convert"
    THEN [ret |-> -1, produced |-> 0]
    ELSE [ret |-> n, produced |-> n]

\* convert_samples(input, converted, n, resccx): swr_convert produces n
\* samples at equal rates or fails; its count is not passed on
ConvertSamples(n, fault) ==
  IF fault = "convert"
    THEN [ret |-> -1, produced |-> 0]
    ELSE [ret |-> 0, produced |-> n]

\* read_decode_convert_and_store, lines 513-530: the gotos of lines 514, 519
\* and 526 jump over `uint8_t **conv_isamps = NULL`, so at the cleanup label
\* the handle is initialised only on the paths that went through line 530
ConvHandleInitialised(allocErr, decErr, fin) == ~(allocErr \/ decErr \/ fin)

\* what an uninitialised conv_isamps reads as at line 550, and what freeing
\* through a wild handle does to the process
UninitOutcomes == {"null", "wild_survive", "wild_crash"}

\* read_decode_convert_and_store, lines 549-553: the cleanup label
PumpCleanup(init, convAlloc, frameAlloc, u) ==
  [convFreed |-> IF init /\ convAlloc THEN 1 ELSE 0,
   wild |-> (~init) /\ u # "null",
   crash |-> (~init) /\ u = "wild_crash",
   frameFreed |-> IF frameAlloc THEN 1 ELSE 0]

\* one call of read_decode_convert_and_store from the filling loop
Pump ==
  /\ pc = "filling"
  /\ FillGuard(level, E)
  /\ hist.pumps < MaxCalls
  /\ \E fault \in PumpFaults \cup {"none"}, d \in FrameSizes,
        u \in UninitOutcomes :
       LET frameErr == fault = "alloc_frame"
           dec == IF frameErr
                    THEN [err |-> TRUE, data |-> FALSE, fin |-> finished,
                          n |-> 0, eof |-> FALSE, rres |-> "none",
                          inLeft |-> inLeft, decQ |-> decQ,
                          decDraining |-> decDraining]
                    ELSE DecodeAudioFrame(fault, d)
           init == ConvHandleInitialised(frameErr, (~frameErr) /\ dec.err,
                                         (~dec.err) /\ dec.fin)
           keep == (~dec.err) /\ PumpStores(dec.fin, dec.data)
           convAllocErr == keep /\ fault = "alloc_conv"
           convCall == keep /\ ~convAllocErr
           conv == IF convCall THEN ConvertSamples(dec.n, fault)
                   ELSE [ret |-> 0, produced |-> 0]
           convErr == convAllocErr \/ conv.ret # 0
           add == IF keep /\ ~convErr
                    THEN AddSamplesToFifo(level, cap, dec.n, fault)
                    ELSE [err |-> FALSE, short |-> FALSE,
                          level |-> level, cap |-> cap, grown |-> cap]
           err == dec.err \/ convErr \/ add.err
           stored == keep /\ ~convErr /\ ~add.err
           cl == PumpCleanup(init, convCall, ~frameErr, u)
           back == ~cl.crash            \* the call returns to main
       IN
       /\ inLeft' = dec.inLeft
       /\ decQ' = dec.decQ
       /\ decDraining' = dec.decDraining
       /\ finished' = dec.fin
       /\ level' = add.level
       /\ cap' = add.cap
       /\ pc' = IF back THEN AfterPump(err, dec.fin) ELSE "exit"
       \* killed by SIGSEGV: 128 + 11
       /\ status' = IF back THEN status ELSE 128 + 11
       /\ hist' = [hist EXCEPT
            !.pumps = @ + 1,
            !.yielded = @ + dec.n,
            !.appended = IF stored THEN @ + dec.n ELSE @,
            !.dropped = IF dec.data /\ ~err /\ ~keep THEN @ + 1 ELSE @,
            !.eos = @ \/ (back /\ ~err /\ dec.fin),
            !.eosLevel = IF ~hist.eos /\ back /\ ~err /\ dec.fin
                           THEN add.level ELSE @,
            !.eosPumps = IF hist.eos THEN @ + 1 ELSE @,
            !.firstEos = @ \/ (hist.pumps = 0 /\ back /\ ~err /\ dec.fin),
            !.failed = @ \/ (back /\ err),
            !.shortWrite = @ \/ add.short,
            !.faulted = @ \/ (err /\ fault # "none"),
            !.lastOp = "pump",
            !.lastRes = IF ~back THEN "crashed"
                        ELSE IF err THEN "error"
                        ELSE IF dec.fin THEN "finished"
                        ELSE IF stored THEN "stored" ELSE "nodata",
            !.lastFault = IF err THEN fault ELSE "none",
            !.lastEof = dec.eof,
            !.lastMove = IF stored THEN "append" ELSE "none",
            !.lastReq = IF keep /\ ~convErr THEN dec.n ELSE 0,
            !.lastCount = IF stored THEN dec.n ELSE 0,
            !.lastLevel = level,
            !.lastPts = pts,
            !.lastFin = finished,
            !.lastDec = dec.rres,
            !.lastYield = dec.n,
            !.lastGrown = add.grown,
            !.convCalled = convCall,
            !.convRet = conv.ret,
            !.convProduced = conv.produced,
            !.frameAlloc = ~frameErr,
            !.frameFreed = cl.frameFreed,
            !.convInit = init,
            !.convAlloc = convCall,
            !.convFreed = cl.convFreed,
            !.wildFree = @ \/ cl.wild,
            !.crashed = @ \/ cl.crash]
  /\ UNCHANGED <<ret, resVars, envVars, rateVars,
                 encVars, headerDone, trailerDone>>

\* main, line 767: the filling loop ends because the FIFO holds a frame
FillExit ==
  /\ pc = "filling"
  /\ ~FillGuard(level, E)
  /\ pc' = "draining"
  /\ UNCHANGED <<ret, status, resVars, envVars, rateVars,
                 finished, fifoVars, decVars,
                 encVars, headerDone, trailerDone, hist>>

(* ----------------------------- the encoder ---------------------------- *)
\* avcodec_receive_packet: "packet", "eagain" or "eof" from the encoder state
EncReceive(q, delay, draining) ==
  IF draining
    THEN (IF q # <<>> THEN "packet" ELSE "eof")
    ELSE (IF Len(q) > delay THEN "packet" ELSE "eagain")

\* faulty variant: the timestamp counts frames, not samples
NextPts_PerFrame(p, n) == p + 1

\* encode_audio_frame, lines 617-620: the timestamp after a frame of n samples
NextPts(p, n) == p + n

\* faulty variant: end of stream on send is taken for an error
SendIsFatal_Eof(res) == res # "ok"

\* encode_audio_frame, line 628: a send result that aborts the call
\* ("ok", "eof": the encoder is flushing already, or "error")
SendIsFatal(res) == res # "ok" /\ res # "eof"

\* faulty variant: end of stream on receive is taken for an error
ReceiveIsFatal_Eof(res) == res \notin {"eagain", "packet"}

\* encode_audio_frame, lines 637-650: a receive result that aborts the call
ReceiveIsFatal(res) == res \notin {"eagain", "eof", "packet"}

EncodeFaults == {"alloc_packet", "send", "receive", "write"}

\* encode_audio_frame(frame, outfcx, outccx, &data_present); n = 0 stands for
\* frame == NULL, else n is frame->nb_samples
EncodeAudioFrame(n, fault) ==
  LET same == [err |-> TRUE, data |-> FALSE, eof |-> FALSE, reached |-> FALSE,
               sent |-> FALSE, sres |-> "none", pts |-> pts,
               frames |-> frames, encQ |-> encQ,
               encDraining |-> encDraining, written |-> written]
  IN
  IF fault = "alloc_packet" THEN same
  ELSE
    LET pts1 == IF n # 0 THEN NextPts(pts, n) ELSE pts
        frames1 == IF n # 0 THEN Append(frames, [n |-> n, pts |-> pts])
                   ELSE frames
        sres == IF fault = "send" THEN "error"
                ELSE IF encDraining THEN "eof" ELSE "ok"
        q1 == IF sres = "ok" /\ n # 0 THEN Append(encQ, Len(frames1)) ELSE encQ
        dr1 == encDraining \/ (sres = "ok" /\ n = 0)
        stamped == [same EXCEPT !.pts = pts1, !.frames = frames1,
                                !.sent = TRUE, !.sres = sres]
    IN
    IF SendIsFatal(sres) THEN stamped
    ELSE
      LET rres == IF fault = "receive" THEN "error"
                  ELSE EncReceive(q1, encDelay, dr1)
          afterSend == [stamped EXCEPT !.encQ = q1, !.encDraining = dr1,
                                       !.reached = TRUE,
                                       !.eof = (rres = "eof")]
      IN
      IF ReceiveIsFatal(rres) THEN afterSend
      ELSE IF rres # "packet"
        THEN [afterSend EXCEPT !.err = FALSE]
        ELSE
          LET got == [afterSend EXCEPT !.encQ = Tail(q1), !.data = TRUE]
          IN IF fault = "write" THEN got
             ELSE [got EXCEPT !.err = FALSE,
                              !.written = Append(written, Head(q1))]

(* --------------------------- the Frame Drain -------------------------- *)
\* faulty variant: always a full encoder frame
DrainFrameSize_Full(lvl, e) == e

\* load_encode_and_write, lines 679-680: FFMIN(av_audio_fifo_size, frame_size)
DrainFrameSize(lvl, e) == Min(lvl, e)

\* faulty variant: the remainder at end of input is not drained
DrainGuard_NoTail(lvl, e, fin) == lvl >= e

\* faulty variant: at end of input the Drain runs even on an empty FIFO
DrainGuard_AnyTail(lvl, e, fin) == lvl >= e \/ fin

\* main, line 782: the guard of the draining loop
DrainGuard(lvl, e, fin) == lvl >= e \/ (fin /\ lvl > 0)

\* faulty variant: a failed Drain is skipped and the loop goes on
AfterDrain_Continue(err) == "draining"

\* main, lines 789-790: where main goes after one Drain call
AfterDrain(err) == IF err THEN "cleanup" ELSE "draining"

DrainFaults == {"alloc_frame"} \cup EncodeFaults

\* one call of load_encode_and_write from the draining loop
Drain ==
  /\ pc = "draining"
  /\ DrainGuard(level, E, finished)
  /\ hist.drains < MaxCalls
  /\ \E fault \in DrainFaults \cup {"none"} :
       LET fs == DrainFrameSize(level, E)
           \* init_output_frame: av_frame_get_buffer rejects nb_samples < 1
           allocErr == fault = "alloc_frame" \/ fs < 1
           rd == IF allocErr THEN [ret |-> fs, level |-> level]
                 ELSE FifoRead(level, fs)
           short == rd.ret < fs
           enc == IF allocErr \/ short
                    THEN [err |-> FALSE, data |-> FALSE, eof |-> FALSE,
                          reached |-> FALSE, sent |-> FALSE,
                          sres |-> "none", pts |-> pts,
                          frames |-> frames, encQ |-> encQ,
                          encDraining |-> encDraining, written |-> written]
                    ELSE EncodeAudioFrame(fs, fault)
           err == allocErr \/ short \/ enc.err
       IN
       /\ level' = rd.level
       /\ pts' = enc.pts
       /\ frames' = enc.frames
       /\ encQ' = enc.encQ
       /\ encDraining' = enc.encDraining
       /\ written' = enc.written
       /\ pc' = AfterDrain(err)
       /\ hist' = [hist EXCEPT
            !.drains = @ + 1,
            !.sends = IF enc.sent THEN @ + 1 ELSE @,
            !.eosDrains = IF hist.eos THEN @ + 1 ELSE @,
            !.failed = @ \/ err,
            !.shortRead = @ \/ short,
            !.lastOp = "drain",
            !.lastRes = IF err THEN "error" ELSE "ok",
            !.lastFault = IF err THEN fault ELSE "none",
            !.lastEof = enc.eof,
            !.lastMove = IF ~allocErr /\ ~short THEN "consume" ELSE "none",
            !.lastReq = IF allocErr THEN 0 ELSE fs,
            !.lastCount = IF ~allocErr /\ ~short THEN fs ELSE 0,
            !.lastLevel = level,
            !.lastPts = pts,
            !.lastFin = finished,
            !.lastFs = fs,
            !.wildFree = FALSE,
            !.lastSend = enc.sres,
            !.lastRecv = enc.reached,
            !.faulted = @ \/ (err /\ fault # "none")]
  /\ UNCHANGED <<ret, status, resVars, envVars, rateVars,
                 finished, cap, decVars,
                 headerDone, trailerDone>>

\* main, lines 782-804: the draining loop ends; flush when finished, else
\* start the next round with finished = 0
DrainExit ==
  /\ pc = "draining"
  /\ ~DrainGuard(level, E, finished)
  /\ pc' = IF finished THEN "flushing" ELSE "filling"
  /\ hist' = IF finished
               THEN [hist EXCEPT !.flushK = Len(encQ), !.flushW = Len(written),
                                 !.wildFree = FALSE]
               ELSE hist
  /\ UNCHANGED <<ret, status, resVars, envVars, rateVars,
                 finished, fifoVars, decVars,
                 encVars, headerDone, trailerDone>>

(* ------------------------------ flushing ------------------------------ *)
\* faulty variant: the encoder is flushed with a single NULL push
AfterFlush_Once(err, data) ==
  IF err THEN "cleanup" ELSE "trailer"

\* main, lines 798-802: where main goes after one encode_audio_frame(NULL)
AfterFlush(err, data) ==
  IF err THEN "cleanup" ELSE IF data THEN "flushing" ELSE "trailer"

\* one iteration of the flush loop: encode_audio_frame(NULL, ...)
Flush ==
  /\ pc = "flushing"
  /\ hist.nullPushes < MaxCalls
  /\ \E fault \in EncodeFaults \cup {"none"} :
       LET enc == EncodeAudioFrame(0, fault)
       IN
       /\ pts' = enc.pts
       /\ frames' = enc.frames
       /\ encQ' = enc.encQ
       /\ encDraining' = enc.encDraining
       /\ written' = enc.written
       /\ pc' = AfterFlush(enc.err, enc.data)
       /\ hist' = [hist EXCEPT
            !.nullPushes = @ + 1,
            !.sends = IF enc.sent THEN @ + 1 ELSE @,
            !.failed = @ \/ enc.err,
            !.lastOp = "flush",
            !.lastRes = IF enc.err THEN "error"
                        ELSE IF enc.data THEN "packet"
                        ELSE IF enc.eof THEN "eof" ELSE "eagain",
            !.lastFault = IF enc.err THEN fault ELSE "none",
            !.lastEof = enc.eof,
            !.lastMove = "none",
            !.lastReq = 0,
            !.lastCount = 0,
            !.lastLevel = level,
            !.lastPts = pts,
            !.lastFin = finished,
            !.lastSend = enc.sres,
            !.lastRecv = enc.reached,
            !.faulted = @ \/ (enc.err /\ fault # "none")]
  /\ UNCHANGED <<ret, status, resVars, envVars, rateVars,
                 finished, fifoVars, decVars,
                 headerDone, trailerDone>>

(* ------------------------------ trailer ------------------------------- *)
\* faulty variant: ret is cleared before the trailer write is checked
TrailerRet_Early(ok, r) == 0

\* main, lines 809-811: ret becomes 0 only after the trailer was written
TrailerRet(ok, r) == IF ok THEN 0 ELSE r

\* main, lines 809-811: write_output_file_trailer, then ret = 0
WriteTrailer ==
  /\ pc = "trailer"
  /\ \E fault \in {"write_trailer", "none"} :
       /\ trailerDone' = (fault = "none")
       /\ ret' = TrailerRet(fault = "none", ret)
       /\ hist' = [hist EXCEPT !.trailers = @ + 1,
                               !.failed = @ \/ (fault # "none"),
                               !.lastOp = "trailer",
                               !.lastRes = IF fault = "none" THEN "ok"
                                           ELSE "error",
                               !.lastFault = fault,
                               !.lastEof = FALSE,
                               !.lastMove = "none",
                               !.lastReq = 0,
                               !.lastCount = 0,
                               !.lastLevel = level,
                               !.lastPts = pts,
                               !.lastFin = finished,
                               !.faulted = @ \/ (fault # "none")]
  /\ pc' = "cleanup"
  /\ UNCHANGED <<status, resVars, envVars, rateVars,
                 finished, fifoVars, decVars,
                 encVars, headerDone>>

(* --------------------------- specification ---------------------------- *)
Next ==
  \/ CheckArgs
  \/ OpenInput
  \/ OpenOutput
  \/ InitResampler
  \/ InitFifo
  \/ WriteHeader
  \/ Pump
  \/ FillExit
  \/ Drain
  \/ DrainExit
  \/ Flush
  \/ WriteTrailer
  \/ Cleanup

Spec == Init /\ [][Next]_vars

\* main is one sequential thread: whenever it has a next step it takes it
FairSpec == Spec /\ WF_vars(Next)

\* the run ended after the trailer was written: the driver's DONE
Done == pc = "exit" /\ trailerDone

(* ============================ properties ============================== *)

CeilDiv(a, b) == (a + b - 1) \div b

\* C1: in any run that reaches DONE, the samples handed to the encoder in
\* frames are as many as the samples in the frames the decoder yielded
\* (frames yielded during the end-of-input flush included): none is dropped
\* or duplicated.
C1_NoSampleLost == Done => SumSizes(frames) = hist.yielded

\* C2: whenever the Frame Pump reports finished, all data has been decoded:
\* the decoder holds no frame that was not appended to the buffer, and no
\* frame received from the decoder has been discarded.
C2_FinishedMeansAllDecoded ==
  (hist.lastOp = "pump" /\ hist.lastRes = "finished")
    => (decQ = <<>> /\ hist.dropped = 0)

\* C3: once a Pump call has reported end of stream the Pump is never called
\* again; at most one more Drain is made, exactly when 0 < level < E, and it
\* takes the whole remaining level; FLUSHING is entered with level = 0, and
\* DONE is reached only through FLUSHING.
C3_EosThenOneDrain ==
  /\ hist.eos =>
       /\ hist.eosPumps = 0
       /\ hist.eosDrains <= 1
       /\ hist.eosLevel < E
       /\ hist.eosDrains = 1 => hist.eosLevel > 0
       /\ (hist.eosDrains = 1 /\ hist.lastOp = "drain") =>
            /\ hist.lastLevel = hist.eosLevel
            /\ hist.lastMove = "consume" =>
                 (hist.lastCount = hist.eosLevel /\ level = 0)
       /\ (pc \in {"flushing", "trailer"} \/ Done) =>
            /\ level = 0
            /\ hist.eosDrains = (IF hist.eosLevel > 0 THEN 1 ELSE 0)
  /\ (pc \in {"flushing", "trailer"} \/ Done) => hist.eos
  /\ Done => hist.nullPushes >= 1

C3_Witness == Done /\ hist.eosDrains = 1 /\ hist.drains >= 2

\* C4: in a run that reaches DONE with T samples appended, the Drain was
\* called ceil(T/E) times, every frame handed to the encoder has E samples
\* except the last, which has T mod E samples when E does not divide T, and
\* the buffer is empty.
C4_DrainCount ==
  Done =>
    LET T == hist.appended
        k == Len(frames)
    IN /\ hist.drains = CeilDiv(T, E)
       /\ k = hist.drains
       /\ \A i \in 1..(k - 1) : frames[i].n = E
       /\ k > 0 => frames[k].n = (IF T % E = 0 THEN E ELSE T % E)
       /\ level = 0

C4_Witness == Done /\ hist.appended % E # 0 /\ hist.drains >= 2

\* C5: the buffer level is never negative; a successful append of count
\* samples raises it by count, a successful consume of count samples lowers
\* it by count, and no other step changes it.
C5_LevelAccounting ==
  /\ [](level >= 0)
  /\ [][IF hist'.pumps > hist.pumps /\ hist'.lastMove = "append"
          THEN level' = level + hist'.lastCount
          ELSE IF hist'.drains > hist.drains /\ hist'.lastMove = "consume"
            THEN level' = level - hist'.lastCount
            ELSE level' = level]_vars

C5_Witness ==
  /\ hist.lastOp = "drain" /\ hist.lastMove = "consume"
  /\ hist.lastCount = 2 /\ level = 1 /\ hist.appended >= 3

\* C6: every consume of the Frame Drain asks for min(level, E) samples, so
\* never for more than the level; the short read of load_encode_and_write
\* and the short write of add_samples_to_fifo never happen.
C6_NoShortTransfer ==
  /\ ~hist.shortRead
  /\ ~hist.shortWrite
  /\ (hist.lastOp = "drain" /\ hist.lastFault # "alloc_frame") =>
       /\ hist.lastReq = Min(hist.lastLevel, E)
       /\ hist.lastReq <= hist.lastLevel
       /\ hist.lastMove = "consume"

C6_Witness ==
  /\ hist.lastOp = "drain" /\ hist.lastMove = "consume"
  /\ hist.lastLevel < E /\ hist.lastReq = hist.lastLevel /\ level = 0

\* C7: the timestamp counter starts at 0 and never decreases; it equals the
\* sum of the sizes of the frames encode_audio_frame has stamped, the i-th
\* frame carries the sum of the sizes before it, and a NULL (flush) push
\* leaves the counter unchanged.
C7_PtsIsSumOfFrames ==
  /\ [](/\ pts = SumSizes(frames)
        /\ \A i \in 1..Len(frames) :
             frames[i].pts = SumSizes(SubSeq(frames, 1, i - 1)))
  /\ [][/\ pts' >= pts
        /\ hist'.nullPushes > hist.nullPushes => pts' = pts]_vars

C7_Witness ==
  /\ Len(frames) >= 2 /\ frames[1].n # frames[2].n
  /\ hist.nullPushes >= 1

\* C8: after the first fatal error main goes to cleanup: no further Pump,
\* Drain, encoder push, packet write or trailer write is made, and the exit
\* status is not 0.
C8_FailStop ==
  /\ [](hist.failed => (pc \in {"cleanup", "exit"} /\ ret # 0))
  /\ []((pc = "exit" /\ hist.failed) => (status # 0 /\ ~trailerDone))
  /\ [][hist.failed =>
          /\ hist'.pumps = hist.pumps
          /\ hist'.drains = hist.drains
          /\ hist'.sends = hist.sends
          /\ hist'.nullPushes = hist.nullPushes
          /\ hist'.trailers = hist.trailers
          /\ written' = written
          /\ trailerDone' = trailerDone]_vars

C8_Witness ==
  /\ pc = "exit" /\ hist.failed /\ hist.lastOp = "drain"
  /\ hist.lastFault = "write" /\ status = 187

\* C9: end of stream is not an error: a Pump call in which the demuxer or
\* the decoder signals end of stream (and no collaborator fails) returns
\* success with finished set, and an encode_audio_frame call whose receive
\* signals end of stream returns success with no packet; neither sends main
\* to cleanup.
C9_EosIsNotAnError ==
  /\ (hist.lastOp = "pump" /\ hist.lastFault = "none" /\ hist.lastEof) =>
       /\ hist.lastRes = "finished"
       /\ finished
       /\ ~hist.failed
       /\ pc # "cleanup"
  /\ (hist.lastOp \in {"drain", "flush"} /\ hist.lastFault = "none"
        /\ hist.lastEof) =>
       /\ hist.lastRes = "eof"
       /\ ~hist.failed
       /\ pc = "trailer"

C9_Witness ==
  /\ pc = "trailer" /\ hist.lastOp = "flush" /\ hist.lastEof
  /\ hist.eos /\ hist.nullPushes >= 2

\* C10: every resource acquired during setup is released exactly once on
\* every exit path, whatever step fails.
C10_ReleasedExactlyOnce ==
  pc = "exit" =>
    \A r \in Resources :
      /\ Count(acquired, r) <= 1
      /\ Count(released, r) = Count(acquired, r)

\* C11: on every exit path of one Pump call the decoded frame is released
\* exactly once, the converted block is released exactly once iff it was
\* allocated in that call, and the cleanup never reads or frees through a
\* conv_isamps handle that was not initialised on that path.
C11_PumpCleanup ==
  hist.lastOp = "pump" =>
    /\ hist.frameFreed = (IF hist.frameAlloc THEN 1 ELSE 0)
    /\ hist.convFreed = (IF hist.convAlloc THEN 1 ELSE 0)
    /\ hist.convInit
    /\ ~hist.wildFree

\* C12: the flush loop ends: with k packets held by the encoder when
\* flushing begins it makes exactly k + 1 NULL pushes and writes exactly k
\* packets, and leaves on the first push that yields no packet.
C12_FlushCount ==
  /\ pc = "flushing" =>
       /\ hist.nullPushes <= hist.flushK
       /\ Len(written) - hist.flushW = hist.nullPushes
  /\ pc = "trailer" =>
       /\ hist.nullPushes = hist.flushK + 1
       /\ Len(written) - hist.flushW = hist.flushK
       /\ hist.lastOp = "flush"
       /\ hist.lastRes \in {"eof", "eagain"}
       /\ encQ = <<>>

C12_Witness == pc = "trailer" /\ hist.flushK >= 1 /\ hist.nullPushes >= 2

\* C13: when the first Pump call reports end of stream (zero-length input)
\* the run makes one Pump call and no Drain call, no frame reaches the
\* encoder and the timestamp stays 0, main goes from filling through draining
\* to flushing and on, and the exit status is 0 when no collaborator fails.
C13_ZeroLengthInput ==
  hist.firstEos =>
    /\ hist.pumps = 1
    /\ hist.drains = 0
    /\ frames = <<>>
    /\ pts = 0
    /\ level = 0
    /\ pc \in {"draining", "flushing", "trailer", "cleanup", "exit"}
    /\ (pc = "exit" /\ ~hist.faulted) => (status = 0 /\ trailerDone)

C13_Witness == hist.firstEos /\ Done /\ status = 0 /\ hist.nullPushes = 1

\* C14: the Pump is called only when level < E and end of stream has not
\* been reported, the Drain only when level >= E or (finished and
\* level > 0), and filling is left for draining only when level >= E or
\* finished is set.
C14_DriverGuards ==
  /\ [](hist.lastOp = "pump" =>
          (hist.lastLevel < E /\ ~hist.lastFin /\ hist.eosPumps = 0))
  /\ [](hist.lastOp = "drain" =>
          (hist.lastLevel >= E \/ (hist.lastFin /\ hist.lastLevel > 0)))
  /\ [][(pc = "filling" /\ pc' = "draining") =>
          (level' >= E \/ finished')]_vars

C14_Witness ==
  /\ hist.lastOp = "drain" /\ hist.lastFin /\ hist.lastLevel < E
  /\ hist.pumps >= 2

\* C15: the exit status is 0 iff the trailer was written; the trailer write
\* is attempted once at most and only right after a flush push that yielded
\* no packet; on every other path the status is not 0 and no trailer is
\* written.
C15_StatusAndTrailer ==
  /\ [](pc = "exit" => (status = 0 <=> trailerDone))
  /\ [](hist.trailers <= 1 /\ (trailerDone => hist.trailers = 1))
  /\ [][hist'.trailers > hist.trailers =>
          (hist.lastOp = "flush" /\ hist.lastRes \in {"eof", "eagain"})]_vars

C15_Witness ==
  /\ pc = "exit" /\ hist.trailers = 1 /\ ~trailerDone /\ status = 187

\* C16: with an argument count other than 3 (program name and two
\* positional arguments) the program exits at once with status 1, having
\* opened nothing and acquired nothing.
C16_BadArgs ==
  hist.argc \notin {0, 3} =>
    /\ pc = "exit"
    /\ status = 1
    /\ acquired = <<>>
    /\ ptr = NoPtr
    /\ ~headerDone
    /\ hist.pumps = 0

C16_Witness == hist.argc = 4 /\ pc = "exit" /\ status = 1

\* C17: the Drain is never called with a computed frame_size of zero:
\* min(level, E) >= 1 at every call of load_encode_and_write.
C17_FrameSizePositive ==
  /\ E >= 1
  /\ hist.lastOp = "drain" =>
       (hist.lastFs >= 1 /\ Min(hist.lastLevel, E) >= 1)

C17_Witness ==
  hist.lastOp = "drain" /\ hist.lastFs = 1 /\ E = 2 /\ hist.lastFin

\* C18 as stated: convert_samples returns the count of samples produced.
C18_ConvertReturnsCount ==
  (hist.lastOp = "pump" /\ hist.convCalled /\ hist.lastFault # "convert")
    => hist.convRet = hist.convProduced

\* C18 amended: convert_samples returns 0 on success and a negative error
\* code on failure, not the count produced; after a success the caller
\* stores the frame's own sample count.
C18_ConvertReturnsStatus ==
  (hist.lastOp = "pump" /\ hist.convCalled) =>
    IF hist.lastFault = "convert"
      THEN hist.convRet < 0 /\ hist.lastMove = "none" /\ hist.failed
      ELSE /\ hist.convRet = 0
           /\ hist.convProduced = hist.lastYield
           /\ hist.lastMove = "append" => hist.lastCount = hist.lastYield
           /\ hist.lastFault = "none" => hist.lastMove = "append"

C18_Witness ==
  /\ hist.lastOp = "pump" /\ hist.convCalled /\ hist.convRet = 0
  /\ hist.convProduced = 2 /\ hist.lastMove = "append"

C20_CapacityCoversLevel ==
  /\ cap >= level
  /\ hist.lastMove = "append" =>
       /\ hist.lastGrown >= hist.lastLevel + hist.lastCount
       /\ level = hist.lastLevel + hist.lastCount
       /\ hist.lastCount = hist.lastYield
  /\ (hist.lastOp = "pump" /\ hist.lastFault = "fifo_realloc") =>
       /\ hist.failed
       /\ level = hist.lastLevel
       /\ pc \in {"cleanup", "exit"}

C20_Witness ==
  /\ hist.lastMove = "append" /\ hist.lastLevel >= 1
  /\ cap = hist.lastLevel + hist.lastCount

\* C21: a NULL push is always followed by a receive attempt, on the receive
\* path of a normal push, also when the encoder answers the send with end of
\* stream because it is flushing already; that answer is not an error, and
\* any other negative send result ends the call without a receive.
C21_NullPushReceives ==
  (hist.lastOp \in {"drain", "flush"} /\ hist.lastSend # "none") =>
    /\ hist.lastSend \in {"ok", "eof"} =>
         /\ hist.lastRecv
         /\ hist.lastFault # "send"
         /\ hist.lastFault = "none" => hist.lastRes # "error"
    /\ hist.lastSend = "error" =>
         /\ ~hist.lastRecv
         /\ hist.lastRes = "error"
         /\ hist.lastFault = "send"
         /\ pc \in {"cleanup", "exit"}
    /\ (hist.lastOp = "flush" /\ hist.lastSend = "eof"
          /\ hist.lastFault = "none") =>
         (hist.lastRes \in {"packet", "eof"} /\ pc \in {"flushing", "trailer"})

C21_Witness ==
  /\ hist.lastOp = "flush" /\ hist.lastSend = "eof" /\ hist.lastRecv
  /\ hist.nullPushes >= 2 /\ pc = "trailer"

\* C22: whenever init_resampler is reached the encoder's sample rate equals
\* the decoder's, so the assertion of init_resampler never fails.
C22_SampleRatesEqual ==
  /\ pc = "init_resampler" =>
       (inRate \in Rates /\ SampleRateAssert(outRate, inRate))
  /\ hist.asserted => (outRate = inRate /\ status # 128 + 6)
  /\ status # 128 + 6

C22_Witness ==
  hist.asserted /\ inRate = 48000 /\ outRate = 48000 /\ pc = "init_fifo"

\* the order in which a run that acquires everything does so
AcquisitionOrder ==
  <<"inpfcx", "inpccx", "outio", "outfcx", "outccx", "resccx", "fifo">>

\* the order of main's cleanup label
CleanupOrder ==
  <<"fifo", "resccx", "outccx", "outio", "outfcx", "inpccx", "inpfcx">>

\* position of x in the sequence s (0: not in it)
Pos(s, x) ==
  IF \E i \in 1..Len(s) : s[i] = x
    THEN CHOOSE i \in 1..Len(s) : s[i] = x
    ELSE 0

\* the elements of s follow one another as they do in order
Follows(s, order) ==
  \A i, j \in 1..Len(s) : i < j => Pos(order, s[i]) < Pos(order, s[j])

\* the elements of s follow one another against the order
Reverses(s, order) ==
  \A i, j \in 1..Len(s) : i < j => Pos(order, s[i]) > Pos(order, s[j])

\* C23 as stated: on every exit path the resources are released in the
\* reverse of the order of acquisition, the output I/O handle after the
\* output format context.
C23_ReverseOfAcquisition ==
  pc = "exit" =>
    /\ Follows(acquired, AcquisitionOrder)
    /\ Reverses(released, AcquisitionOrder)

\* C23 amended: on every exit path the resources are released in the order
\* of main's cleanup label (FIFO, resampler, encoder context, output I/O
\* handle, output format context, decoder context, input format context):
\* the reverse of the acquisition but for the output I/O handle, which is
\* closed before the output format context that holds it; the one other
\* exception is a failure of avcodec_parameters_to_context, where
\* open_input_file closes the input before it frees the decoder context.
C23_CleanupOrder ==
  pc = "exit" =>
    /\ Follows(acquired, AcquisitionOrder)
    /\ IF hist.setupFault = "parameters_to_context"
         THEN released = <<"inpfcx", "inpccx">>
         ELSE Follows(released, CleanupOrder)
    /\ (Pos(released, "outio") # 0 /\ Pos(released, "outfcx") # 0) =>
         Pos(released, "outio") + 1 = Pos(released, "outfcx")

C23_Witness ==
  /\ Done /\ released = CleanupOrder /\ acquired = AcquisitionOrder

\* C24: with a finite input, E >= 1 and finitely many packets held by the
\* encoder, every run ends: main does not stay in the filling, draining or
\* flushing loop for ever, and it ends either with the trailer written or
\* with a non-zero status.
C24_Terminates ==
  /\ <>(pc = "exit" /\ (Done \/ status # 0))
  /\ [](hist.pumps < MaxCalls /\ hist.drains < MaxCalls
          /\ hist.nullPushes < MaxCalls)

C24_Witness ==
  /\ Done /\ hist.pumps >= 3 /\ hist.drains >= 2 /\ hist.nullPushes >= 2

\* C25: the level never exceeds E - 1 + Dmax (Dmax: the largest decoded
\* frame); it is below E whenever a filling phase starts and whenever a
\* draining phase ends, and 0 when a draining phase ends with finished set.
C25_LevelBound ==
  /\ [](level <= E - 1 + MaxD)
  /\ [](pc = "flushing" => level = 0)
  /\ [][(pc # "filling" /\ pc' = "filling") => level' < E]_vars
  /\ [][(pc = "draining" /\ pc' \in {"filling", "flushing"}) =>
          (level' < E /\ (finished' => level' = 0))]_vars

C25_Witness ==
  /\ level = E - 1 + MaxD /\ E >= 2 /\ pc = "draining"
  /\ hist.lastOp = "pump" /\ hist.pumps >= 2

\* the packets of the frames 1..n, in the order the encoder produced them
PacketsOf(n) == [i \in 1..n |-> i]

\* C26: the muxer sees the header, then packets, then the trailer: no packet
\* is written before the header write succeeded or after the trailer write,
\* and in a run that reaches DONE every packet the encoder produced was
\* written once, in the encoder's order, and none is left in the encoder.
C26_MuxerOrder ==
  /\ [](written # <<>> => headerDone)
  /\ [](hist.trailers > 0 => headerDone)
  /\ [][written' # written =>
          (headerDone /\ hist.trailers = 0 /\ ~trailerDone
             /\ Len(written') = Len(written) + 1
             /\ (encQ # <<>> => written' = Append(written, Head(encQ))))]_vars
  /\ [][hist.trailers > 0 => written' = written]_vars
  /\ [](Done => (encQ = <<>> /\ written = PacketsOf(Len(frames))))

C26_Witness ==
  Done /\ Len(written) >= 2 /\ hist.flushK >= 1 /\ encQ = <<>>

====
